---- MODULE Spec2Model ----
(***************************************************************************)
(* lambda::basic_str_view (str_view.hpp): a non-owning (pointer, length)   *)
(* view over characters held in memory owned by somebody else.             *)
(*                                                                         *)
(* Memory is a small address space: address 0 is the null pointer,         *)
(* addresses 1..MemSize are mapped and hold arbitrary characters (every    *)
(* content is an initial state), every other address is unmapped.  A read  *)
(* of a mapped address outside the view returns what the memory holds      *)
(* there; a read of an unmapped address is an access violation ("fault").  *)
(* size_type is an unsigned integer of SizeBits bits, `auto i = 0u` an     *)
(* unsigned int of UIntBits bits.                                          *)
(***************************************************************************)
EXTENDS Integers, FiniteSets, Sequences, TLC

\* ---------------------------------------------------------------- bounds
MemSize  == 3          \* number of mapped character cells
MaxChar  == 1          \* characters are 0..MaxChar, 0 is the terminator
SizeBits == 4          \* width of size_type
UIntBits == 3          \* width of unsigned int (the type of 0u)

Chars    == 0..MaxChar
SizeMod  == 2 ^ SizeBits
UIntMod  == 2 ^ UIntBits
nullptr  == 0
Fault    == 0 - 1      \* what Rd and StrLen answer for an unmapped address

\* static constexpr size_type npos = size_type(-1);
npos     == (0 - 1) % SizeMod

VARIABLES
    mem,        \* the backing memory, [1..MemSize -> Chars]
    wide,       \* build choice: traits::compare touches all n characters
                \* of both operands before it answers (word-wise memcmp)
    m_str,      \* basic_str_view::m_str of the receiving view
    m_length,   \* basic_str_view::m_length of the receiving view
    last,       \* the last call: operation, arguments, receiver, outcome
    dest,       \* the characters the last call wrote to the storage its
                \* caller provided (copy's dest), in the order of the cells
    heap        \* the buffer of the std::basic_string the last call
                \* returned: its characters and its terminator

vars == <<mem, wide, m_str, m_length, last, dest, heap>>

\* ------------------------------------------------------------ result values
RInt(x)     == [kind |-> "ok", val |-> x, flag |-> FALSE, str |-> 0, len |-> 0]
RBool(b)    == [kind |-> "ok", val |-> 0, flag |-> b, str |-> 0, len |-> 0]
RView(s, n) == [kind |-> "ok", val |-> 0, flag |-> FALSE, str |-> s, len |-> n]
RFail(k)    == [kind |-> k, val |-> 0, flag |-> FALSE, str |-> 0, len |-> 0]

Min(a, b) == IF a < b THEN a ELSE b

\* ------------------------------------------------------------------ memory
\* where the buffer of a std::basic_string lies, clear of the backing memory
HeapBase == 2 * MemSize + 2

InHeap(a) == a \in HeapBase..(HeapBase + Len(heap) - 1)

Mapped(a) == a \in 1..MemSize \/ InHeap(a)

Rd(a) ==
    IF a \in 1..MemSize THEN mem[a]
    ELSE IF InHeap(a) THEN heap[a - HeapBase + 1]
    ELSE Fault

AllMapped(s, n) == \A i \in 0..(n - 1) : Mapped(s + i)

\* std::char_traits<CharT>::length
RECURSIVE StrLenFrom(_, _)
StrLenFrom(s, n) ==
    IF Rd(s + n) = Fault THEN Fault
    ELSE IF Rd(s + n) = 0 THEN n
    ELSE StrLenFrom(s, n + 1)

StrLen(s) == StrLenFrom(s, 0)

\* std::char_traits<CharT>::compare(s1, s2, n), reduced to its sign
RECURSIVE TraitsCompareFrom(_, _, _, _)
TraitsCompareFrom(s1, s2, n, i) ==
    IF i >= n THEN RInt(0)
    ELSE IF Rd(s1 + i) = Fault \/ Rd(s2 + i) = Fault THEN RFail("fault")
    ELSE IF Rd(s1 + i) < Rd(s2 + i) THEN RInt(0 - 1)
    ELSE IF Rd(s1 + i) > Rd(s2 + i) THEN RInt(1)
    ELSE TraitsCompareFrom(s1, s2, n, i + 1)

TraitsCompare(s1, s2, n) ==
    IF n = 0 THEN RInt(0)
    ELSE IF wide /\ ~(AllMapped(s1, n) /\ AllMapped(s2, n)) THEN RFail("fault")
    ELSE TraitsCompareFrom(s1, s2, n, 0)

\* ------------------------------------------------------------ constructors
\* basic_str_view(const CharT *s, size_type count)
View(s, count) == [str |-> s, len |-> count]

\* basic_str_view(const CharT *s); the mutant counts the terminator in
CStrView_mut(s) == [str |-> s, len |-> StrLen(s) + 1]

CStrView(s) == [str |-> s, len |-> StrLen(s)]

\* basic_str_view(const std::basic_string &str): c_str() and size() of a
\* string whose buffer is at s and holds n characters
StringView(s, n) == [str |-> s, len |-> n]

\* basic_str_view(const basic_str_view &other) and operator=, both defaulted;
\* the mutant copies the pointer alone
CopyView_mut(other) == [str |-> other.str, len |-> 0]

CopyView(other) == [str |-> other.str, len |-> other.len]

\* basic_str_view(); the mutant leaves a length behind
DefaultView_mut == [str |-> nullptr, len |-> 1]

DefaultView == [str |-> nullptr, len |-> 0]

\* the receiving view
Self == [str |-> m_str, len |-> m_length]

\* ---------------------------------------------------------------- capacity
\* data()
data(v) == v.str

\* size()
size(v) == v.len

\* empty(); the mutant tests the pointer
empty_mut(v) == v.str # nullptr

empty(v) == v.len = 0

\* ----------------------------------------------------------- element access
\* operator[](size_type pos): `return m_str[pos];`
index(v, pos) ==
    IF Rd(v.str + pos) = Fault THEN RFail("fault") ELSE RInt(Rd(v.str + pos))

\* the mutant: an off-by-one bounds check
at_mut(v, pos) ==
    IF pos <= v.len
      THEN (IF Rd(v.str + pos) = Fault THEN RFail("fault") ELSE RInt(Rd(v.str + pos)))
      ELSE RFail("throw")

at(v, pos) ==
    IF pos < v.len
      THEN (IF Rd(v.str + pos) = Fault THEN RFail("fault") ELSE RInt(Rd(v.str + pos)))
      ELSE RFail("throw")

\* ------------------------------------------------------------------ substr
\* the mutant: pos == length rejected as well
substr_mut(v, pos, count) ==
    LET max_length == IF pos > v.len THEN 0 ELSE v.len - pos
    IN  IF pos >= v.len THEN RFail("throw")
        ELSE RView(v.str + pos, Min(count, max_length))

substr(v, pos, count) ==
    LET max_length == IF pos > v.len THEN 0 ELSE v.len - pos
    IN  IF pos > v.len THEN RFail("throw")
        ELSE RView(v.str + pos, Min(count, max_length))

\* ----------------------------------------------------------------- compare
Sign3(a, b) == IF a < b THEN 0 - 1 ELSE IF a > b THEN 1 ELSE 0

\* compare(basic_str_view v): rlen = (m_length, v.length()) is the comma
\* operator, so rlen is v.length()
compare(self, v) ==
    LET rlen == v.len
        cmp  == TraitsCompare(self.str, v.str, rlen)
    IN  IF cmp.kind # "ok" THEN cmp
        ELSE IF cmp.val # 0 THEN RInt(cmp.val)
        ELSE RInt(Sign3(self.len, v.len))

\* compare(size_type pos1, size_type count1, basic_str_view v)
comparePos(self, pos1, count1, v) ==
    LET s == substr(self, pos1, count1)
    IN  IF s.kind # "ok" THEN s ELSE compare(View(s.str, s.len), v)

\* ---------------------------------------------------- relational operators
\* every view-vs-view operator is written rhs.compare(rhs); the mutant of
\* operator== tests != 0
OpEq_mut(lhs, rhs) == LET c == compare(rhs, rhs) IN IF c.kind # "ok" THEN c ELSE RBool(c.val # 0)
OpEq(lhs, rhs) == LET c == compare(rhs, rhs) IN IF c.kind # "ok" THEN c ELSE RBool(c.val = 0)
OpNe(lhs, rhs) == LET c == compare(rhs, rhs) IN IF c.kind # "ok" THEN c ELSE RBool(c.val # 0)
OpLt(lhs, rhs) == LET c == compare(rhs, rhs) IN IF c.kind # "ok" THEN c ELSE RBool(c.val < 0)
OpLe(lhs, rhs) == LET c == compare(rhs, rhs) IN IF c.kind # "ok" THEN c ELSE RBool(c.val <= 0)
OpGt(lhs, rhs) == LET c == compare(rhs, rhs) IN IF c.kind # "ok" THEN c ELSE RBool(c.val > 0)
OpGe(lhs, rhs) == LET c == compare(rhs, rhs) IN IF c.kind # "ok" THEN c ELSE RBool(c.val >= 0)

\* the view-vs-view operator named rel
ViewRel(rel, lhs, rhs) ==
    CASE rel = "==" -> OpEq(lhs, rhs)
      [] rel = "!=" -> OpNe(lhs, rhs)
      [] rel = "<"  -> OpLt(lhs, rhs)
      [] rel = "<=" -> OpLe(lhs, rhs)
      [] rel = ">"  -> OpGt(lhs, rhs)
      [] rel = ">=" -> OpGe(lhs, rhs)

\* operator rel (basic_str_view lhs, const CharT *rhs):
\* `return lhs rel basic_str_view(rhs);` for each of the six
rel_view_cstr(rel, lhs, s) == ViewRel(rel, lhs, CStrView(s))

\* operator rel (const CharT *rhs, basic_str_view lhs): ==, != and < hand on
\* to their own operator; <=, > and >= are written `basic_str_view(rhs) < lhs`
rel_cstr_view(rel, s, v) ==
    ViewRel(IF rel \in {"==", "!=", "<"} THEN rel ELSE "<", CStrView(s), v)

\* operator rel (basic_str_view lhs, const std::basic_string &std_str), the
\* string's buffer at str.str holding str.len characters: ==, !=, < and >=
\* hand on to their own operator; <= and > are written
\* `lhs < basic_str_view(std_str)`
rel_view_string(rel, v, str) ==
    ViewRel(IF rel \in {"<=", ">"} THEN "<" ELSE rel, v, StringView(str.str, str.len))

\* operator rel (const std::basic_string &std_str, basic_str_view lhs): each
\* of the six is written `basic_str_view(std_str) == lhs`
rel_string_view(rel, str, v) == ViewRel("==", StringView(str.str, str.len), v)

\* ------------------------------------------------- starts_with / ends_with
\* starts_with(basic_str_view sv)
starts_with(self, sv) ==
    LET c == comparePos(self, 0, sv.len, sv)
    IN  IF c.kind # "ok" THEN c ELSE RBool(c.val = 0)

\* starts_with(const CharT *s)
starts_with_cstr(self, s) ==
    LET c == comparePos(self, 0, StrLen(s), CStrView(s))
    IN  IF c.kind # "ok" THEN c ELSE RBool(c.val = 0)

\* ends_with(basic_str_view sv): the int of compare is returned as the bool
ends_with(self, sv) ==
    LET c == comparePos(self, (self.len - sv.len) % SizeMod, sv.len, sv)
    IN  IF c.kind # "ok" THEN c ELSE RBool(c.val # 0)

\* ends_with(const CharT *s)
ends_with_cstr(self, s) ==
    LET c == comparePos(self, (self.len - StrLen(s)) % SizeMod, StrLen(s), CStrView(s))
    IN  IF c.kind # "ok" THEN c ELSE RBool(c.val # 0)

\* -------------------------------------------------------------------- find
\* the for loop of find(basic_str_view, size_type); i is an unsigned int
RECURSIVE find_loop(_, _, _, _, _)
find_loop(self, v, pos, increments, i) ==
    IF i > increments THEN RInt(npos)
    ELSE LET j == (i + pos) % SizeMod
             s == substr(self, j, v.len)
             e == IF s.kind # "ok" THEN s ELSE OpEq(View(s.str, s.len), v)
         IN  IF e.kind # "ok" THEN e
             ELSE IF e.flag THEN RInt(j)
             ELSE IF (i + 1) % UIntMod = 0 THEN RFail("hang")
             ELSE find_loop(self, v, pos, increments, i + 1)

\* find(basic_str_view v, size_type pos); the mutant lacks the second test
\* of the guard
find_mut(self, v, pos) ==
    IF pos > self.len THEN RInt(npos)
    ELSE find_loop(self, v, pos, (self.len - v.len - pos) % SizeMod, 0)

find(self, v, pos) ==
    IF pos > self.len \/ (pos + v.len) % SizeMod > self.len THEN RInt(npos)
    ELSE find_loop(self, v, pos, (self.len - v.len - pos) % SizeMod, 0)

\* the for loop of find(CharT, size_type)
RECURSIVE find_ch_loop(_, _, _, _, _)
find_ch_loop(self, ch, pos, increments, i) ==
    IF i > increments THEN RInt(npos)
    ELSE LET j == (i + pos) % SizeMod
         IN  IF Rd(self.str + j) = Fault THEN RFail("fault")
             ELSE IF Rd(self.str + j) = ch THEN RInt(j)
             ELSE IF (i + 1) % UIntMod = 0 THEN RFail("hang")
             ELSE find_ch_loop(self, ch, pos, increments, i + 1)

\* find(CharT ch, size_type pos)
find_ch(self, ch, pos) ==
    IF pos > self.len THEN RInt(npos)
    ELSE find_ch_loop(self, ch, pos, (self.len - 1 - pos) % SizeMod, 0)

\* ------------------------------------------------------------------- rfind
\* the while loop of rfind(basic_str_view, size_type)
RECURSIVE rfind_loop(_, _, _)
rfind_loop(self, v, i) ==
    IF i = npos THEN RInt(npos)
    ELSE LET s == substr(self, i, v.len)
             e == IF s.kind # "ok" THEN s ELSE OpEq(View(s.str, s.len), v)
         IN  IF e.kind # "ok" THEN e
             ELSE IF e.flag THEN RInt(i)
             ELSE rfind_loop(self, v, (i - 1) % SizeMod)

\* the positions the while loop of rfind examines with substr(i, v.size()) == v,
\* in the order it examines them: the loop above, recording i
RECURSIVE rfind_scan(_, _, _)
rfind_scan(self, v, i) ==
    IF i = npos THEN <<>>
    ELSE LET s == substr(self, i, v.len)
             e == IF s.kind # "ok" THEN s ELSE OpEq(View(s.str, s.len), v)
         IN  IF e.kind # "ok" THEN <<i>>
             ELSE IF e.flag THEN <<i>>
             ELSE <<i>> \o rfind_scan(self, v, (i - 1) % SizeMod)

\* rfind with the scan started at pos instead of min(pos, size() - v.size())
rfind_mut(self, v, pos) ==
    IF self.len = 0 THEN (IF v.len = 0 THEN RInt(0) ELSE RInt(npos))
    ELSE IF v.len = 0 THEN RInt(Min(self.len - 1, pos))
    ELSE IF v.len > self.len THEN RInt(npos)
    ELSE rfind_loop(self, v, pos)
\* rfind(basic_str_view v, size_type pos)
rfind(self, v, pos) ==
    IF self.len = 0 THEN (IF v.len = 0 THEN RInt(0) ELSE RInt(npos))
    ELSE IF v.len = 0 THEN RInt(Min(self.len - 1, pos))
    ELSE IF v.len > self.len THEN RInt(npos)
    ELSE rfind_loop(self, v, Min(pos, self.len - v.len))

\* ----------------------------------------------------------- find_first_of
\* the inner for loop of find_first_of(basic_str_view, size_type):
\* `if (m_str[j] == v[idx]) return j;`; "next" when it runs to its end
RECURSIVE find_first_of_inner(_, _, _, _)
find_first_of_inner(self, v, idx, j) ==
    IF ~(j < v.len) THEN RFail("next")
    ELSE IF Rd(self.str + j) = Fault \/ Rd(v.str + idx) = Fault THEN RFail("fault")
    ELSE IF Rd(self.str + j) = Rd(v.str + idx) THEN RInt(j)
    ELSE find_first_of_inner(self, v, idx, (j + 1) % SizeMod)

\* the outer for loop of find_first_of(basic_str_view, size_type)
RECURSIVE find_first_of_outer(_, _, _)
find_first_of_outer(self, v, idx) ==
    IF ~(idx < self.len) THEN RInt(npos)
    ELSE LET r == find_first_of_inner(self, v, idx, 0)
         IN  IF r.kind # "next" THEN r
             ELSE find_first_of_outer(self, v, (idx + 1) % SizeMod)

\* find_first_of(basic_str_view v, size_type pos)
find_first_of(self, v, pos) == find_first_of_outer(self, v, pos)

\* ------------------------------------------------------- find_first_not_of
\* the inner for loop of find_first_not_of(basic_str_view, size_type):
\* `if (m_str[j] != v[idx]) return j;`
RECURSIVE find_first_not_of_inner(_, _, _, _)
find_first_not_of_inner(self, v, idx, j) ==
    IF ~(j < v.len) THEN RFail("next")
    ELSE IF Rd(self.str + j) = Fault \/ Rd(v.str + idx) = Fault THEN RFail("fault")
    ELSE IF Rd(self.str + j) # Rd(v.str + idx) THEN RInt(j)
    ELSE find_first_not_of_inner(self, v, idx, (j + 1) % SizeMod)

\* the outer for loop of find_first_not_of(basic_str_view, size_type)
RECURSIVE find_first_not_of_outer(_, _, _)
find_first_not_of_outer(self, v, idx) ==
    IF ~(idx < self.len) THEN RInt(npos)
    ELSE LET r == find_first_not_of_inner(self, v, idx, 0)
         IN  IF r.kind # "next" THEN r
             ELSE find_first_not_of_outer(self, v, (idx + 1) % SizeMod)

\* find_first_not_of(basic_str_view v, size_type pos)
find_first_not_of(self, v, pos) == find_first_not_of_outer(self, v, pos)

\* ------------------------------------------------------------ find_last_of
\* the inner for loop of find_last_of(basic_str_view, size_type):
\* `for (size_type jdx{0}; jdx <= len; ++jdx) if (m_str[idx] == v[jdx]) return jdx;`
\* With len = npos the counter wraps to 0 and the loop never ends ("hang").
RECURSIVE find_last_of_inner(_, _, _, _, _)
find_last_of_inner(self, v, len, idx, jdx) ==
    IF ~(jdx <= len) THEN RFail("next")
    ELSE IF Rd(self.str + idx) = Fault \/ Rd(v.str + jdx) = Fault THEN RFail("fault")
    ELSE IF Rd(self.str + idx) = Rd(v.str + jdx) THEN RInt(jdx)
    ELSE IF (jdx + 1) % SizeMod = 0 THEN RFail("hang")
    ELSE find_last_of_inner(self, v, len, idx, jdx + 1)

\* the outer for loop of find_last_of(basic_str_view, size_type).  Its first
\* statement, `const auto = len - idx;`, names no variable and has no effect.
RECURSIVE find_last_of_outer(_, _, _, _)
find_last_of_outer(self, v, len, idx) ==
    IF ~(idx <= len) THEN RInt(npos)
    ELSE LET r == find_last_of_inner(self, v, len, idx, 0)
         IN  IF r.kind # "next" THEN r
             ELSE IF (idx + 1) % SizeMod = 0 THEN RFail("hang")
             ELSE find_last_of_outer(self, v, len, idx + 1)

\* find_last_of(basic_str_view v, size_type pos)
find_last_of(self, v, pos) ==
    IF v.len = 0 THEN RInt(npos)
    ELSE find_last_of_outer(self, v, Min((self.len - 1) % SizeMod, pos), 0)

\* --------------------------------------------------------------- modifiers
\* remove_prefix(size_type n): the body is empty; the view after the call
remove_prefix(self, n) == View(self.str, self.len)

\* remove_suffix(size_type n): the body is empty (and compiled out of
\* str_view.hpp by #if 0); the view after the call
remove_suffix(self, n) == View(self.str, self.len)

\* swap(basic_str_view &v): the body is empty (and compiled out of
\* str_view.hpp by #if 0); the two views after the call
swap(self, v) == [self |-> View(self.str, self.len), v |-> View(v.str, v.len)]

\* -------------------------------------------------------------------- copy
\* copy(CharT *dest, size_type count, size_type pos): the value returned (res)
\* and the characters std::copy writes to dest, dest[0] first
copy(self, count, pos) ==
    IF pos >= self.len THEN [res |-> RFail("throw"), dest |-> <<>>]
    ELSE LET rc == Min(self.len - pos, (count + 1) % SizeMod)
         IN  [res |-> RInt(rc), dest |-> [i \in 1..rc |-> Rd(self.str + pos + (i - 1))]]

\* --------------------------------------------------------------- to_string
\* to_string(): std::basic_string(m_str, m_length, all), the buffer of the
\* string it returns: m_length characters and the terminator.  The mutant
\* builds the string from m_str alone, up to the first terminator.
to_string_mut(self) ==
    IF self.len = 0 THEN [res |-> RInt(0), heap |-> <<0>>]
    ELSE IF StrLen(self.str) = Fault THEN [res |-> RFail("fault"), heap |-> <<>>]
    ELSE [res |-> RInt(StrLen(self.str)),
          heap |-> [i \in 1..(StrLen(self.str) + 1) |->
                       IF i <= StrLen(self.str) THEN Rd(self.str + (i - 1)) ELSE 0]]

to_string(self) ==
    IF self.len = 0 THEN [res |-> RInt(0), heap |-> <<0>>]
    ELSE IF ~AllMapped(self.str, self.len) THEN [res |-> RFail("fault"), heap |-> <<>>]
    ELSE [res |-> RInt(self.len),
          heap |-> [i \in 1..(self.len + 1) |->
                       IF i <= self.len THEN Rd(self.str + (i - 1)) ELSE 0]]

\* ---------------------------------------------------------------- contains
\* contains(basic_str_view sv): `return find(sv) != npos;`
contains_mut(self, sv) == RBool(FALSE)
contains(self, sv) ==
    LET f == find(self, sv, 0)
    IN  IF f.kind # "ok" THEN f ELSE RBool(f.val # npos)

\* contains(CharT c): `return find(c) != npos;`
contains_ch(self, c) ==
    LET f == find_ch(self, c, 0)
    IN  IF f.kind # "ok" THEN f ELSE RBool(f.val # npos)

\* contains(const CharT *s): `return find(basic_str_view(s)) != npos;`
contains_cstr(self, s) ==
    IF StrLen(s) = Fault THEN RFail("fault")
    ELSE LET f == find(self, CStrView(s), 0)
         IN  IF f.kind # "ok" THEN f ELSE RBool(f.val # npos)

\* ---------------------------------------------------------- the arguments
\* views whose characters all lie in mapped memory, and the empty null view
ValidView(w) ==
    \/ w.str = nullptr /\ w.len = 0
    \/ w.str \in 1..(MemSize + 1) /\ w.str + w.len <= MemSize + 1

Views == {w \in [str : 0..(MemSize + 1), len : 0..MemSize] : ValidView(w)}

\* pointers to a terminated character sequence
CStrs == {s \in 1..MemSize : StrLen(s) # Fault}

Positions == 0..(MemSize + 1) \cup {npos}

\* owning strings: a buffer of size() characters and the terminator behind
Strings == {w \in Views : Rd(w.str + w.len) = 0}

\* the six relational operators, in the order the source defines them
RelAt == <<"==", "!=", "<", "<=", ">", ">=">>

\* ------------------------------------------------------------------ calls
\* Calls are synchronous and made one at a time: the caller makes a call,
\* looks at its outcome (last), and goes on to its next call.
NoCall ==
    [op |-> "idle", self |-> DefaultView, sv |-> DefaultView, cs |-> 0,
     pos |-> 0, count |-> 0, ch |-> 0, res |-> RFail("none")]

Call(op, sv, cs, pos, count, ch, res) ==
    [op |-> op, self |-> Self, sv |-> sv, cs |-> cs, pos |-> pos,
     count |-> count, ch |-> ch, res |-> res]

Init ==
    /\ mem \in [1..MemSize -> Chars]
    /\ wide \in BOOLEAN
    /\ m_str = nullptr
    /\ m_length = 0
    /\ last = NoCall
    /\ dest = <<>>
    /\ heap = <<>>

\* a call that constructs the receiving view anew
Construct(op, w, cs, count) ==
    /\ last = NoCall
    /\ m_str' = w.str
    /\ m_length' = w.len
    /\ last' = [op |-> op, self |-> w, sv |-> DefaultView, cs |-> cs, pos |-> 0,
                count |-> count, ch |-> 0, res |-> RView(w.str, w.len)]
    /\ UNCHANGED <<mem, wide, dest, heap>>

\* a call of a const member: the view and the memory stay as they are
Query(c) ==
    /\ last = NoCall
    /\ last' = c
    /\ UNCHANGED <<mem, wide, m_str, m_length, dest, heap>>

\* the caller has taken the outcome, and what was written for it; a string
\* that was returned is destroyed
Return ==
    /\ last # NoCall
    /\ last' = NoCall
    /\ dest' = <<>>
    /\ heap' = <<>>
    /\ UNCHANGED <<mem, wide, m_str, m_length>>

\* a call of a non-const member: the receiving view becomes w
Modify(op, sv, n, w, res) ==
    /\ last = NoCall
    /\ m_str' = w.str
    /\ m_length' = w.len
    /\ last' = Call(op, sv, 0, 0, n, 0, res)
    /\ UNCHANGED <<mem, wide, dest, heap>>

CtorDefault == Construct("ctor", DefaultView, 0, 0)

CtorPtrCount ==
    \E w \in Views : w.str # nullptr /\ Construct("ctor_ptr_count", View(w.str, w.len), w.str, w.len)

CtorCStr ==
    \E s \in CStrs : Construct("ctor_cstr", CStrView(s), s, 0)

\* (s, count) as the caller gives them: the constructor checks nothing
CtorPtrCountAny ==
    \E s \in 0..(MemSize + 1), count \in 0..MemSize :
        Construct("ctor_ptr_count", View(s, count), s, count)

\* from an owning string: its buffer holds size() characters and a terminator
CtorString ==
    \E w \in Views :
        /\ Rd(w.str + w.len) = 0
        /\ Construct("ctor_string", StringView(w.str, w.len), w.str, w.len)

\* a copy of the receiving view takes its place
CtorCopy == Construct("ctor_copy", CopyView(Self), m_str, m_length)

\* v = v.substr(pos, count): the view substr has just returned is assigned
Assign ==
    /\ last.op = "substr"
    /\ last.res.kind = "ok"
    /\ LET w == CopyView(View(last.res.str, last.res.len))
       IN  /\ m_str' = w.str
           /\ m_length' = w.len
           /\ last' = [op |-> "assign", self |-> w, sv |-> DefaultView, cs |-> w.str,
                       pos |-> 0, count |-> w.len, ch |-> 0, res |-> RView(w.str, w.len)]
    /\ UNCHANGED <<mem, wide, dest, heap>>

Index == \E pos \in Positions : Query(Call("index", DefaultView, 0, pos, 0, 0, index(Self, pos)))

At == \E pos \in Positions : Query(Call("at", DefaultView, 0, pos, 0, 0, at(Self, pos)))

Substr ==
    \E pos \in Positions, count \in Positions :
        Query(Call("substr", DefaultView, 0, pos, count, 0, substr(Self, pos, count)))

Compare == \E v \in Views : Query(Call("compare", v, 0, 0, 0, 0, compare(Self, v)))

Equal        == \E rhs \in Views : Query(Call("==", rhs, 0, 0, 0, 0, OpEq(Self, rhs)))
NotEqual     == \E rhs \in Views : Query(Call("!=", rhs, 0, 0, 0, 0, OpNe(Self, rhs)))
Less         == \E rhs \in Views : Query(Call("<", rhs, 0, 0, 0, 0, OpLt(Self, rhs)))
LessEqual    == \E rhs \in Views : Query(Call("<=", rhs, 0, 0, 0, 0, OpLe(Self, rhs)))
Greater      == \E rhs \in Views : Query(Call(">", rhs, 0, 0, 0, 0, OpGt(Self, rhs)))
GreaterEqual == \E rhs \in Views : Query(Call(">=", rhs, 0, 0, 0, 0, OpGe(Self, rhs)))

\* the relational operators with a raw sequence or an owning string on one
\* side: last.pos is the operator's place in RelAt, last.sv the other operand
\* as a view, the receiving view the operand that is a view
RelViewCStr ==
    \E i \in 1..Len(RelAt), s \in CStrs :
        Query(Call("view_rel_cstr", CStrView(s), s, i, 0, 0, rel_view_cstr(RelAt[i], Self, s)))

RelCStrView ==
    \E i \in 1..Len(RelAt), s \in CStrs :
        Query(Call("cstr_rel_view", CStrView(s), s, i, 0, 0, rel_cstr_view(RelAt[i], s, Self)))

RelViewString ==
    \E i \in 1..Len(RelAt), str \in Strings :
        Query(Call("view_rel_string", str, str.str, i, 0, 0, rel_view_string(RelAt[i], Self, str)))

RelStringView ==
    \E i \in 1..Len(RelAt), str \in Strings :
        Query(Call("string_rel_view", str, str.str, i, 0, 0, rel_string_view(RelAt[i], str, Self)))

StartsWith ==
    \E sv \in Views : Query(Call("starts_with", sv, 0, 0, 0, 0, starts_with(Self, sv)))

StartsWithCStr ==
    \E s \in CStrs :
        Query(Call("starts_with_cstr", CStrView(s), s, 0, 0, 0, starts_with_cstr(Self, s)))

EndsWith ==
    \E sv \in Views : Query(Call("ends_with", sv, 0, 0, 0, 0, ends_with(Self, sv)))

EndsWithCStr ==
    \E s \in CStrs :
        Query(Call("ends_with_cstr", CStrView(s), s, 0, 0, 0, ends_with_cstr(Self, s)))

Find ==
    \E v \in Views, pos \in Positions :
        Query(Call("find", v, 0, pos, 0, 0, find(Self, v, pos)))

FindCh ==
    \E ch \in Chars, pos \in Positions :
        Query(Call("find_ch", DefaultView, 0, pos, 0, ch, find_ch(Self, ch, pos)))

RFind ==
    \E v \in Views, pos \in Positions :
        Query(Call("rfind", v, 0, pos, 0, 0, rfind(Self, v, pos)))

FindFirstOf ==
    \E v \in Views, pos \in Positions :
        Query(Call("find_first_of", v, 0, pos, 0, 0, find_first_of(Self, v, pos)))

FindFirstNotOf ==
    \E v \in Views, pos \in Positions :
        Query(Call("find_first_not_of", v, 0, pos, 0, 0, find_first_not_of(Self, v, pos)))

FindLastOf ==
    \E v \in Views, pos \in Positions :
        Query(Call("find_last_of", v, 0, pos, 0, 0, find_last_of(Self, v, pos)))

Contains ==
    \E sv \in Views : Query(Call("contains", sv, 0, 0, 0, 0, contains(Self, sv)))

ContainsCh ==
    \E c \in Chars : Query(Call("contains_ch", DefaultView, 0, 0, 0, c, contains_ch(Self, c)))

ContainsCStr ==
    \E s \in CStrs :
        Query(Call("contains_cstr", CStrView(s), s, 0, 0, 0, contains_cstr(Self, s)))

\* The caller provides storage for count characters.  A character std::copy
\* writes beyond them lands in whatever lies behind that storage: a cell
\* `behind` of the backing memory, or (behind = 0) something else.
Copy ==
    \E count \in Positions, pos \in Positions, behind \in 0..MemSize :
        LET c == copy(Self, count, pos)
        IN  /\ last = NoCall
            /\ last' = Call("copy", DefaultView, behind, pos, count, 0, c.res)
            /\ dest' = c.dest
            /\ mem' = IF Len(c.dest) > count /\ behind # 0
                        THEN [mem EXCEPT ![behind] = c.dest[count + 1]]
                        ELSE mem
            /\ UNCHANGED <<wide, m_str, m_length, heap>>

\* to_string(), and the view constructed over the string it returned
ToStringCall ==
    LET t == to_string(Self)
    IN  /\ last = NoCall
        /\ heap' = t.heap
        /\ last' = Call("to_string", DefaultView, 0, 0, 0, 0,
                        IF t.res.kind # "ok" THEN t.res
                        ELSE RView(StringView(HeapBase, t.res.val).str,
                                   StringView(HeapBase, t.res.val).len))
        /\ UNCHANGED <<mem, wide, m_str, m_length, dest>>

\* the caller keeps n <= size()
RemovePrefix ==
    \E n \in 0..m_length :
        LET w == remove_prefix(Self, n)
        IN  Modify("remove_prefix", DefaultView, n, w, RView(w.str, w.len))

RemoveSuffix ==
    \E n \in 0..m_length :
        LET w == remove_suffix(Self, n)
        IN  Modify("remove_suffix", DefaultView, n, w, RView(w.str, w.len))

\* last.sv is the other view before the call, last.res the other view after
Swap ==
    \E v \in Views :
        LET r == swap(Self, v)
        IN  Modify("swap", v, 0, r.self, RView(r.v.str, r.v.len))

Next ==
    \/ CtorDefault
    \/ CtorPtrCount
    \/ CtorCStr
    \/ CtorString
    \/ CtorCopy
    \/ Assign
    \/ Index
    \/ ToStringCall
    \/ At
    \/ Substr
    \/ Compare
    \/ Equal
    \/ NotEqual
    \/ Less
    \/ LessEqual
    \/ Greater
    \/ GreaterEqual
    \/ RelViewCStr
    \/ RelCStrView
    \/ RelViewString
    \/ RelStringView
    \/ StartsWith
    \/ StartsWithCStr
    \/ EndsWith
    \/ EndsWithCStr
    \/ Find
    \/ FindCh
    \/ RFind
    \/ FindFirstOf
    \/ FindFirstNotOf
    \/ FindLastOf
    \/ Contains
    \/ ContainsCh
    \/ ContainsCStr
    \/ Copy
    \/ RemovePrefix
    \/ RemoveSuffix
    \/ Swap
    \/ Return

Spec == Init /\ [][Next]_vars

\* construction, checked access and slicing alone
NextAccess ==
    \/ CtorDefault
    \/ CtorPtrCount
    \/ CtorCStr
    \/ At
    \/ Substr
    \/ Return

SpecAccess == Init /\ [][NextAccess]_vars

\* construction and the three overloads of contains alone
NextContains ==
    \/ CtorDefault
    \/ CtorPtrCount
    \/ CtorCStr
    \/ Contains
    \/ ContainsCh
    \/ ContainsCStr
    \/ Return

SpecContains == Init /\ [][NextContains]_vars

\* construction, find and rfind of a view alone
NextSearch ==
    \/ CtorDefault
    \/ CtorPtrCount
    \/ CtorCStr
    \/ Find
    \/ RFind
    \/ Return

SpecSearch == Init /\ [][NextSearch]_vars

\* construction and the round trip through an owning string alone
NextString ==
    \/ CtorDefault
    \/ CtorPtrCount
    \/ CtorCStr
    \/ CtorString
    \/ ToStringCall
    \/ Return

SpecString == Init /\ [][NextString]_vars

\* every way a view comes to be or changes, the (pointer, count) constructor
\* taking whatever its caller gives
NextLifetime ==
    \/ CtorDefault
    \/ CtorPtrCountAny
    \/ CtorCStr
    \/ CtorString
    \/ CtorCopy
    \/ Assign
    \/ Substr
    \/ RemovePrefix
    \/ RemoveSuffix
    \/ Swap
    \/ Return

SpecLifetime == Init /\ [][NextLifetime]_vars

\* ====================================================== what the claims say
\* The notions the claims are stated in, computed from the characters the
\* views hold and from nothing of the code above.
RelOps == {"==", "!=", "<", "<=", ">", ">="}

\* character i of the view w
CharAt(w, i) == mem[w.str + i]

\* the characters of n stand in w from position p on
Occurs(w, n, p) ==
    /\ p + n.len <= w.len
    /\ \A i \in 0..(n.len - 1) : CharAt(w, p + i) = CharAt(n, i)

\* three-way lexicographic order over the first min(a.len, b.len) characters,
\* the shorter view first when they agree
RECURSIVE LexFrom(_, _, _)
LexFrom(a, b, i) ==
    IF i >= Min(a.len, b.len) THEN Sign3(a.len, b.len)
    ELSE IF CharAt(a, i) # CharAt(b, i) THEN Sign3(CharAt(a, i), CharAt(b, i))
    ELSE LexFrom(a, b, i + 1)

Lex(a, b) == LexFrom(a, b, 0)

Sgn(x) == Sign3(x, 0)

Least(S) == CHOOSE x \in S : \A y \in S : x <= y

Greatest(S) == CHOOSE x \in S : \A y \in S : x >= y

\* what a relational operator makes of a three-way result
Rel(op, c) ==
    CASE op = "==" -> c = 0
      [] op = "!=" -> c # 0
      [] op = "<"  -> c < 0
      [] op = "<=" -> c <= 0
      [] op = ">"  -> c > 0
      [] op = ">=" -> c >= 0

FirstOcc(w, n, pos) ==
    LET P == {p \in pos..w.len : Occurs(w, n, p)}
    IN  IF pos > w.len \/ P = {} THEN npos ELSE Least(P)

LastOcc(w, n, pos) ==
    LET P == {p \in 0..Min(pos, w.len - n.len) : Occurs(w, n, p)}
    IN  IF P = {} THEN npos ELSE Greatest(P)

FirstCh(w, ch, pos) ==
    LET P == {p \in pos..(w.len - 1) : CharAt(w, p) = ch}
    IN  IF P = {} THEN npos ELSE Least(P)

\* the character at position p of w is one of the characters of set
InSet(w, p, set) == \E i \in 0..(set.len - 1) : CharAt(w, p) = CharAt(set, i)

FirstOf(w, set, pos) ==
    LET P == {p \in pos..(w.len - 1) : InSet(w, p, set)}
    IN  IF P = {} THEN npos ELSE Least(P)

FirstNotOf(w, set, pos) ==
    LET P == {p \in pos..(w.len - 1) : ~InSet(w, p, set)}
    IN  IF P = {} THEN npos ELSE Least(P)

LastOf(w, set, pos) ==
    LET P == {p \in 0..Min(pos, w.len - 1) : InSet(w, p, set)}
    IN  IF P = {} THEN npos ELSE Greatest(P)

\* C1: a.compare(b) is the three-way lexicographic comparison of the first
\* min(a.size(), b.size()) characters: the sign of the first differing pair,
\* and when that region is equal, negative for a shorter, positive for a
\* longer, zero for an equally long a.  Stated of the calls that return.
C1_CompareThreeWay ==
    (last.op = "compare" /\ last.res.kind = "ok") =>
        Sgn(last.res.val) = Lex(last.self, last.sv)

\* C2: each of the six view-vs-view relational operators answers what
\* lhs.compare(rhs) answers: == iff 0, != iff not 0, < iff negative,
\* <= iff not positive, > iff positive, >= iff not negative.
C2_RelationalConsistent ==
    last.op \in RelOps =>
        LET c == compare(last.self, last.sv)
        IN  c.kind = "ok" =>
                /\ last.res.kind = "ok"
                /\ last.res.flag = Rel(last.op, c.val)

\* C3: compare is a strict total order: sign(a.compare(b)) = -sign(b.compare(a))
\* for all views a, b, and a.compare(b) < 0 with b.compare(c) < 0 implies
\* a.compare(c) < 0 for all views a, b, c.
C3_CompareStrictOrder ==
    (last.op = "compare" /\ last.res.kind = "ok") =>
        /\ LET rev == compare(last.sv, last.self)
           IN  rev.kind = "ok" => Sgn(last.res.val) = 0 - Sgn(rev.val)
        /\ \A c \in Views :
               LET bc == compare(last.sv, c)
                   ac == compare(last.self, c)
               IN  (last.res.val < 0 /\ bc.kind = "ok" /\ bc.val < 0 /\ ac.kind = "ok")
                       => ac.val < 0

\* C4: find(needle, pos) returns the first position p >= pos at which the
\* needle's characters stand contiguously in the view, and npos when
\* pos > length or there is no such position.
C4_FindFirstOccurrence ==
    last.op = "find" =>
        /\ last.res.kind = "ok"
        /\ last.res.val = FirstOcc(last.self, last.sv, last.pos)

\* C5: substr(pos, count) raises out-of-range exactly when pos > length; for
\* pos <= length (pos == length included) it returns the view whose pointer is
\* the pointer advanced by pos and whose length is min(count, length - pos),
\* so that substr(pos), whose count is npos, has size() - pos characters.
C5_Substr ==
    last.op = "substr" =>
        IF last.pos > last.self.len
          THEN last.res.kind = "throw"
          ELSE /\ last.res.kind = "ok"
               /\ last.res.str = last.self.str + last.pos
               /\ last.res.len = Min(last.count, last.self.len - last.pos)
               /\ (last.count = npos => last.res.len = last.self.len - last.pos)

\* C5's case: substr at pos == length of a non-empty view, taken with a
\* non-zero count, has returned the empty view at the end.
C5_Witness ==
    /\ last.op = "substr"
    /\ last.self.len > 0
    /\ last.pos = last.self.len
    /\ last.count > 0
    /\ last.res.kind = "ok"
    /\ last.res.len = 0
    /\ last.res.str = last.self.str + last.self.len

\* C6: at(pos) returns the character at pos when pos < length and raises
\* out-of-range when pos >= length; the view is as it was in both cases.
C6_At ==
    last.op = "at" =>
        /\ IF last.pos < last.self.len
             THEN last.res.kind = "ok" /\ last.res.val = CharAt(last.self, last.pos)
             ELSE last.res.kind = "throw"
        /\ m_str = last.self.str
        /\ m_length = last.self.len

\* C6's case: at beyond the end of a view of MemSize characters has raised.
C6_Witness ==
    /\ last.op = "at"
    /\ last.self.len = MemSize
    /\ last.pos > last.self.len
    /\ last.res.kind = "throw"

\* C7: starts_with(other), other a view or a terminated sequence, is true iff
\* the view's first other.length characters are other's, and false whenever
\* other.length > length.
C7_StartsWith ==
    last.op \in {"starts_with", "starts_with_cstr"} =>
        /\ last.res.kind = "ok"
        /\ last.res.flag = Occurs(last.self, last.sv, 0)

\* C8: ends_with(other), other a view or a terminated sequence, is true iff
\* the view's last other.length characters are other's, and returns false,
\* raising nothing, whenever other.length > length.
C8_EndsWith ==
    last.op \in {"ends_with", "ends_with_cstr"} =>
        /\ last.res.kind = "ok"
        /\ last.res.flag = (/\ last.sv.len <= last.self.len
                            /\ Occurs(last.self, last.sv, last.self.len - last.sv.len))

\* C9: find(ch, pos) returns the first position >= pos whose character is ch,
\* and npos when there is none (the view empty or pos >= length included).
\* Stated of the calls that return.
C9_FindChar ==
    (last.op = "find_ch" /\ last.res.kind = "ok") =>
        last.res.val = FirstCh(last.self, last.ch, last.pos)

\* C10: for a non-empty needle, rfind(needle, pos) returns the largest
\* position p <= min(pos, length - needle.length) at which the needle stands in
\* the view, and npos if there is none or the view is shorter than the needle.
C10_RFindLastOccurrence ==
    (last.op = "rfind" /\ last.sv.len > 0) =>
        /\ last.res.kind = "ok"
        /\ last.res.val = LastOcc(last.self, last.sv, last.pos)

\* C11: for an empty needle, rfind(needle, pos) returns min(length, pos), for
\* every view and every pos.
C11_RFindEmptyNeedle ==
    (last.op = "rfind" /\ last.sv.len = 0) =>
        /\ last.res.kind = "ok"
        /\ last.res.val = Min(last.self.len, last.pos)

\* C12: find_first_of(set, pos) returns the first position p >= pos of the view
\* whose character appears anywhere in set, and npos if there is none (set
\* empty and pos >= length included).  Stated of the calls that return.
C12_FindFirstOf ==
    (last.op = "find_first_of" /\ last.res.kind = "ok") =>
        last.res.val = FirstOf(last.self, last.sv, last.pos)

\* C13: find_first_not_of(set, pos) returns the first position p >= pos of the
\* view whose character does not appear in set, and npos if there is none.
\* Stated of the calls that return.
C13_FindFirstNotOf ==
    (last.op = "find_first_not_of" /\ last.res.kind = "ok") =>
        last.res.val = FirstNotOf(last.self, last.sv, last.pos)

\* C14: find_last_of(set, pos) returns the largest position p <= pos, p < length,
\* of the view whose character appears anywhere in set, and npos if there is
\* none (set empty and view empty included).  Stated of the calls that return.
C14_FindLastOf ==
    (last.op = "find_last_of" /\ last.res.kind = "ok") =>
        last.res.val = LastOf(last.self, last.sv, last.pos)

\* C15: contains(x), x a view, a character or a terminated sequence, is true
\* iff find(x) != npos: it answers whenever find(x) answers, and answers true
\* exactly when find's position is not npos.
C15_Contains ==
    last.op \in {"contains", "contains_ch", "contains_cstr"} =>
        LET f == IF last.op = "contains_ch"
                   THEN find_ch(last.self, last.ch, 0)
                   ELSE find(last.self, last.sv, 0)
        IN  IF f.kind = "ok"
              THEN last.res.kind = "ok" /\ last.res.flag = (f.val # npos)
              ELSE last.res.kind = f.kind

\* C15's case: contains(view) has answered true for a non-empty needle that
\* find locates in a non-empty view.
C15_Witness ==
    /\ last.op = "contains"
    /\ last.sv.len > 0
    /\ last.self.len > 0
    /\ last.res.kind = "ok"
    /\ last.res.flag
    /\ find(last.self, last.sv, 0).val # npos

\* C16: for pos < length, copy(dest, count, pos) writes exactly
\* min(count, length - pos) characters to dest, the view's characters from
\* position pos on, and returns that number; it never writes more than count.
C16_Copy ==
    (last.op = "copy" /\ last.pos < last.self.len) =>
        LET n == Min(last.count, last.self.len - last.pos)
        IN  /\ last.res.kind = "ok"
            /\ last.res.val = n
            /\ Len(dest) = n
            /\ Len(dest) <= last.count
            /\ \A i \in 1..Len(dest) : dest[i] = CharAt(last.self, last.pos + (i - 1))

\* C17: for n <= length, remove_prefix(n) advances the view's pointer by n and
\* decreases its length by n: size() is the old size() minus n and position i
\* holds what position i + n held before.
C17_RemovePrefix ==
    (last.op = "remove_prefix" /\ last.count <= last.self.len) =>
        /\ m_str = last.self.str + last.count
        /\ m_length = last.self.len - last.count
        /\ \A i \in 0..(m_length - 1) : CharAt(Self, i) = CharAt(last.self, i + last.count)

\* C18: for n <= length, remove_suffix(n) decreases the view's length by n and
\* leaves its pointer unchanged.
C18_RemoveSuffix ==
    (last.op = "remove_suffix" /\ last.count <= last.self.len) =>
        /\ m_length = last.self.len - last.count
        /\ m_str = last.self.str

\* C19: a.swap(b) exchanges the two views: a has b's former pointer and
\* length, b has a's former pointer and length; swapping twice restores both.
C19_Swap ==
    last.op = "swap" =>
        /\ Self = last.sv
        /\ View(last.res.str, last.res.len) = last.self
        /\ LET back == swap(Self, View(last.res.str, last.res.len))
           IN  back.self = last.self /\ back.v = last.sv

\* a view whose pointer is null has length 0
NullEmpty(w) == w.str = nullptr => w.len = 0

\* the views there are in a state: the receiving view, and the view a call of
\* substr or swap has handed back
NullEmptyAll ==
    /\ NullEmpty(Self)
    /\ (last.op \in {"substr", "swap"} /\ last.res.kind = "ok")
           => NullEmpty(View(last.res.str, last.res.len))

\* the step constructs from a null pointer and a non-zero count
NullWithCount == last'.op = "ctor_ptr_count" /\ last'.cs = nullptr /\ last'.count # 0

\* C20 as stated: in every reachable state, after any constructions (default,
\* (pointer, count), null-terminated, from an owning string, copy/assignment)
\* and any substr, remove_prefix, remove_suffix and swap, a view whose
\* pointer is null has length 0.
C20_NullHasLengthZero == NullEmptyAll

\* C20 amended: a view whose pointer is null has length 0 initially, and
\* every construction and every substr, remove_prefix, remove_suffix and swap
\* on views of which this holds leaves it so, except the (pointer, count)
\* constructor given a null pointer with a non-zero count, which stores both
\* as given.
C20_NullHasLengthZeroUnlessGiven ==
    /\ NullEmptyAll
    /\ [][(NullEmptyAll /\ ~NullWithCount) => NullEmptyAll']_vars

\* C20's case: a null view has been sliced with a non-zero count, and the
\* view handed back is null with length 0.
C20_Witness ==
    /\ last.op = "substr"
    /\ last.self.str = nullptr
    /\ last.count > 0
    /\ last.res.kind = "ok"
    /\ last.res.str = nullptr
    /\ last.res.len = 0

\* the operations that are const members
ConstOps ==
    {"at", "index", "substr", "compare", "starts_with", "starts_with_cstr",
     "ends_with", "ends_with_cstr", "contains", "contains_ch", "contains_cstr",
     "find", "find_ch", "rfind", "find_first_of", "find_first_not_of",
     "find_last_of", "copy", "to_string"}

\* C21: at, operator[], substr, compare, starts_with, ends_with, contains, the
\* find/rfind/find_*_of family, copy and to_string leave the receiving
\* view's pointer and length and the characters of the backing memory as
\* they were.
C21_SideEffectFree ==
    [][last'.op \in ConstOps =>
          (m_str' = m_str /\ m_length' = m_length /\ mem' = mem)]_vars

\* C22: a default-constructed view is empty: empty() is true, size() is 0 and
\* data() is the null pointer.
C22_DefaultCtor ==
    last.op = "ctor" =>
        /\ empty(Self)
        /\ size(Self) = 0
        /\ data(Self) = nullptr

\* C22's case: the default constructor has run.
C22_Witness ==
    /\ last.op = "ctor"
    /\ last.res.kind = "ok"
    /\ last.self = Self

\* C23: copy-constructing v1 from any view v0 gives v1.size() = v0.size() and
\* v1.data() = v0.data(), and leaves v0 as it was.  v0 is the receiving view
\* before the step, v1 the view the constructor hands back.
C23_CopyCtor ==
    [][last'.op = "ctor_copy" =>
          /\ size(View(last'.res.str, last'.res.len)) = size(Self)
          /\ data(View(last'.res.str, last'.res.len)) = data(Self)
          /\ Self' = Self]_vars

\* C23's case: a non-empty view over the memory has been copied.
C23_Witness ==
    /\ last.op = "ctor_copy"
    /\ last.res.kind = "ok"
    /\ last.res.str # nullptr
    /\ last.res.len > 0
    /\ Self = View(last.res.str, last.res.len)

\* C24: a view constructed from a non-null terminated sequence s has
\* data() = s and size() the number of characters before the first
\* terminator.
C24_CStrCtor ==
    last.op = "ctor_cstr" =>
        /\ data(Self) = last.cs
        /\ \A i \in 0..(size(Self) - 1) : mem[last.cs + i] # 0
        /\ last.cs + size(Self) \in 1..MemSize
        /\ mem[last.cs + size(Self)] = 0

\* C24's case: a sequence of two characters and its terminator has been viewed.
C24_Witness ==
    /\ last.op = "ctor_cstr"
    /\ last.cs # nullptr
    /\ m_length = 2
    /\ mem[last.cs + 2] = 0

\* C25: for all views v, v.substr(0, v.size()) == v under operator==, and the
\* result has the pointer and the length of v.
C25_SubstrWhole ==
    (last.op = "substr" /\ last.pos = 0 /\ last.count = size(last.self)) =>
        /\ last.res.kind = "ok"
        /\ last.res.str = data(last.self)
        /\ last.res.len = size(last.self)
        /\ OpEq(View(last.res.str, last.res.len), last.self) = RBool(TRUE)

\* C25's case: a non-empty view has been sliced from 0 over its whole size.
C25_Witness ==
    /\ last.op = "substr"
    /\ last.pos = 0
    /\ last.self.len > 0
    /\ last.count = last.self.len
    /\ last.res.kind = "ok"
    /\ last.res.len = last.self.len

\* C26: for every view v, the view w over the string v.to_string() returns
\* has w.size() = v.size() and w.compare(v) = 0 (w == v), holds v's
\* characters, and has them in cells that are none of v's backing memory.
C26_RoundTrip ==
    last.op = "to_string" =>
        LET w == View(last.res.str, last.res.len)
            v == last.self
        IN  /\ last.res.kind = "ok"
            /\ size(w) = size(v)
            /\ compare(w, v) = RInt(0)
            /\ OpEq(w, v) = RBool(TRUE)
            /\ \A i \in 0..(size(w) - 1) :
                   /\ Rd(w.str + i) = CharAt(v, i)
                   /\ (w.str + i) \notin 1..MemSize

\* C26's case: a view holding a terminator between two characters has made
\* the round trip.
C26_Witness ==
    /\ last.op = "to_string"
    /\ last.self.len = 3
    /\ CharAt(last.self, 0) # 0
    /\ CharAt(last.self, 1) = 0
    /\ CharAt(last.self, 2) # 0
    /\ last.res.kind = "ok"
    /\ last.res.len = 3

\* C27: every relational operator with a raw terminated sequence or an owning
\* string on either side answers what the same operator answers for the two
\* operands converted to views, taken in the same order.
C27_MixedRelational ==
    last.op \in {"view_rel_cstr", "cstr_rel_view", "view_rel_string", "string_rel_view"} =>
        LET viewFirst == last.op \in {"view_rel_cstr", "view_rel_string"}
            lhs == IF viewFirst THEN last.self ELSE last.sv
            rhs == IF viewFirst THEN last.sv ELSE last.self
        IN  last.res = ViewRel(RelAt[last.pos], lhs, rhs)

C29_FindCharScanBounded ==
    last.op = "find_ch" =>
        /\ last.res.kind = "ok"
        /\ last.pos <= last.self.len => last.self.len - 1 - last.pos >= 0
        /\ last.res.val # npos =>
               (last.pos <= last.res.val /\ last.res.val < last.self.len)

====
